---- MODULE Spec2Model ----
(***************************************************************************)
(* Model of src/adapters/mt5/adapter.py: the MT5 adapter of BrokerOps.     *)
(*                                                                         *)
(* One invocation of the program is one pass through main(): it parses     *)
(* the flags, and either checks health, syncs the deals of the terminal    *)
(* to the economics endpoint, registers a webhook or prints the banner.    *)
(* The model runs invocation after invocation against the same terminal    *)
(* history and the same endpoint.                                          *)
(*                                                                         *)
(* Encoding of Python values:                                              *)
(*   - a str is a sequence of one-character strings;                       *)
(*   - a money amount (float) is an integer number of hundredths;          *)
(*   - a deal (dict) is a function whose DOMAIN is the set of keys the     *)
(*     dict has, so dict.get(k, default) is Get(d, k, default);            *)
(*   - the result of requests.post is an outcome record: a response with   *)
(*     its status code, or the exception the call raised.                  *)
(***************************************************************************)
EXTENDS Integers, Sequences, FiniteSets, TLC

\* ------------------------------------------------------------------ bounds
MaxDeals == 2
MaxTicket == 2
MaxTime == 1
MaxAmount == 1
MaxMapTicket == 11

\* --------------------------------------------------------- python helpers
Has(d, k) == k \in DOMAIN d

Get(d, k, default) == IF Has(d, k) THEN d[k] ELSE default

Abs(x) == IF x < 0 THEN -x ELSE x

Digit(d) == <<"0", "1", "2", "3", "4", "5", "6", "7", "8", "9">>[d + 1]

RECURSIVE Dec(_)
Dec(n) == IF n < 10 THEN <<Digit(n)>> ELSE Dec(n \div 10) \o <<Digit(n % 10)>>

Unknown == <<"u", "n", "k", "n", "o", "w", "n">>

Mt5Prefix == <<"m", "t", "5", "-">>

TradeExecuted == "TRADE_EXECUTED"

\* ticket = deal.get("ticket", "unknown"), as the text "{ticket}" formats to
TicketText(deal) == IF Has(deal, "ticket") THEN Dec(deal["ticket"]) ELSE Unknown

TraceIdCommentDefault(deal) ==
    IF Has(deal, "comment") THEN deal["comment"] ELSE Mt5Prefix \o TicketText(deal)

\* trace_id = deal.get("comment") or f"mt5-{ticket}": a missing comment is
\* None and an empty one is "", both falsy
TraceId(deal) ==
    IF Has(deal, "comment") /\ deal["comment"] # <<>>
    THEN deal["comment"]
    ELSE Mt5Prefix \o TicketText(deal)

EventType(deal) == IF Get(deal, "profit", 0) >= 0 THEN TradeExecuted ELSE TradeExecuted

FeesSigned(data) == Get(data, "commission", 0)

Fees(data) == Abs(Get(data, "commission", 0))

Costs(data) == Abs(Get(data, "swap", 0))

Payload(trace_id, event_type, data) ==
    [traceId |-> trace_id,
     type |-> event_type,
     grossRevenue |-> Get(data, "profit", 0),
     fees |-> Fees(data),
     costs |-> Costs(data),
     currency |-> "USD",
     source |-> "mt5"]

\* ----------------------------------------------------- the HTTP collaborator
Statuses == {200, 304, 400, 500}

Response(status) == [kind |-> "response", status |-> status]

Raised(kind) == [kind |-> kind, status |-> 0]

Outcomes == {Response(s) : s \in Statuses} \cup {Raised("timeout"), Raised("refused")}

RespOkBelow500(status) == status < 500

\* requests.Response.ok: raise_for_status() raises for 400 <= status < 600
RespOk(status) == ~(400 <= status /\ status < 600)

CatchesConnectionErrorOnly(kind) == kind = "refused"

\* except Exception: requests.Timeout and requests.ConnectionError are both
\* subclasses of Exception
Catches(kind) == kind \in {"timeout", "refused"}

\* the value post_economic_event returns for the outcome of its one
\* requests.post call
PostResult(outcome) ==
    IF outcome.kind = "response" THEN RespOk(outcome.status) ELSE FALSE

\* ------------------------------------------------------- the deal source
MockDeal ==
    [k \in {"ticket", "profit", "commission", "swap", "time", "comment"} |->
        CASE k = "ticket" -> 12345678
          [] k = "profit" -> 1250
          [] k = "commission" -> -50
          [] k = "swap" -> -10
          [] k = "time" -> MaxTime
          [] k = "comment" ->
               <<"d", "e", "m", "o", "-", "o", "r", "d", "e", "r", "-", "0", "0", "1">>]

\* mt5.history_deals_get(since, datetime.now()): the deals of the window
HistoryDealsGet(hist, since) == SelectSeq(hist, LAMBDA d : d["time"] >= since)

GetRecentDealsMockOnNone(available, isNone, hist, since) ==
    IF ~available \/ isNone THEN <<MockDeal>> ELSE HistoryDealsGet(hist, since)

GetRecentDeals(available, isNone, hist, since) ==
    IF ~available THEN <<MockDeal>>
    ELSE IF isNone THEN <<>>
    ELSE HistoryDealsGet(hist, since)

\* the deals the terminal can hold: every field present, as _asdict() gives
Deal(ticket, time) ==
    [k \in {"ticket", "profit", "commission", "swap", "time", "comment"} |->
        CASE k = "ticket" -> ticket
          [] k = "profit" -> MaxAmount
          [] k = "commission" -> -MaxAmount
          [] k = "swap" -> -MaxAmount
          [] k = "time" -> time
          [] k = "comment" -> <<>>]

SampleDeals == {Deal(t, tm) : t \in 1..MaxTicket, tm \in 0..MaxTime}

\* what the terminal hands back: deals in the order of their time; a ticket
\* names one deal, so a ticket returned twice is the same deal twice
Chronological(h) ==
    \A j, k \in 1..Len(h) :
        /\ j <= k => h[j]["time"] <= h[k]["time"]
        /\ h[j]["ticket"] = h[k]["ticket"] => h[j] = h[k]

Histories ==
    {h \in UNION {[1..n -> SampleDeals] : n \in 0..MaxDeals} : Chronological(h)}

\* the dicts post_economic_event and sync_deals accept: any of the keys they
\* read with .get may be missing
OptionalKeys == {"ticket", "comment", "commission", "swap", "profit"}

Comments == {<<>>, <<"c", "2">>, <<"o", "r", "d", "e", "r", "-", "4", "2">>}

Amounts == (-MaxAmount)..MaxAmount

MapTickets == 0..MaxMapTicket \cup {12345678}

MkDeal(K, ticket, comment, commission, swap, profit) ==
    [k \in K \cup {"time"} |->
        CASE k = "ticket" -> ticket
          [] k = "profit" -> profit
          [] k = "commission" -> commission
          [] k = "swap" -> swap
          [] k = "time" -> 0
          [] k = "comment" -> comment]

MapDeals ==
    {MkDeal(K, t, c, cm, sw, p) :
        K \in SUBSET OptionalKeys, t \in MapTickets, c \in Comments,
        cm \in Amounts, sw \in Amounts, p \in {-MaxAmount, MaxAmount}}

\* -------------------------------------------------------------- the state
VARIABLES
    MT5_AVAILABLE,  \* the MetaTrader5 package was imported
    history,        \* the deals the terminal holds
    pc,             \* where main() is: "idle", "sync_deals", "for_deal"
    args,           \* the branch of main() taken and the effective since
    inits,          \* what mt5_initialize returned in this invocation
    connected,      \* the terminal connection is open
    shutdowns,      \* calls of mt5_shutdown in this invocation
    fetch,          \* what history_deals_get gave in this invocation
    deals,          \* the list get_recent_deals returned
    i,              \* position of the for loop of sync_deals
    posts,          \* the requests.post calls to /economics/event of this invocation
    delivered       \* tickets whose event earlier invocations reported posted

vars == <<MT5_AVAILABLE, history, pc, args, inits, connected, shutdowns, fetch,
          deals, i, posts, delivered>>

Flags == [health : BOOLEAN, sync_deals : BOOLEAN, register_webhook : BOOLEAN]

\* the order in which main() tests the flags
Command(flags) ==
    IF flags.health THEN "health"
    ELSE IF flags.sync_deals THEN "sync"
    ELSE IF flags.register_webhook THEN "webhook"
    ELSE "interactive"

\* some command line makes main() take the branch
Invocable(cmd) == \E flags \in Flags : Command(flags) = cmd

Mt5Initialize(available, terminalOk) == IF ~available THEN TRUE ELSE terminalOk

\* tickets of the posts that returned True
OkTickets(ps) == {ps[k].ticket : k \in {j \in 1..Len(ps) : ps[j].ret}}

Start ==
    /\ MT5_AVAILABLE \in BOOLEAN
    /\ pc = "idle"
    /\ args = [cmd |-> "", since |-> 0]
    /\ inits = "not_called"
    /\ connected = FALSE
    /\ shutdowns = 0
    /\ fetch = "not_called"
    /\ deals = <<>>
    /\ i = 1
    /\ posts = <<>>
    /\ delivered = {}

Init ==
    /\ Start
    /\ history \in (IF MT5_AVAILABLE THEN Histories ELSE {<<>>})

\* a terminal whose deals all lie in the widest window
InitRecent ==
    /\ Start
    /\ history \in (IF MT5_AVAILABLE
                     THEN UNION {[1..n -> {Deal(t, 0) : t \in 1..MaxTicket}] : n \in 0..MaxDeals}
                     ELSE {<<>>})

InitMap ==
    /\ Start
    /\ history \in (IF MT5_AVAILABLE THEN {<<d>> : d \in MapDeals} ELSE {<<>>})

\* a new process: nothing of the previous invocation remains but what the
\* endpoint received
Begin(cmd, since) ==
    /\ pc = "idle"
    /\ args' = [cmd |-> cmd, since |-> since]
    /\ fetch' = "not_called"
    /\ deals' = <<>>
    /\ i' = 1
    /\ posts' = <<>>
    /\ delivered' = delivered \cup OkTickets(posts)
    /\ UNCHANGED <<MT5_AVAILABLE, history>>

HealthShutdownsAlways(ok) == 1

\* check_health calls mt5_shutdown inside the branch of a successful
\* mt5_initialize
HealthShutdowns(ok) == IF ok THEN 1 ELSE 0

\* main() with --health: check_health() as a whole; the two GET /health
\* calls only print
MainHealth ==
    \E terminalOk \in BOOLEAN :
        LET ok == Mt5Initialize(MT5_AVAILABLE, terminalOk) IN
        /\ Invocable("health")
        /\ Begin("health", 0)
        /\ inits' = IF ok THEN "true" ELSE "false"
        /\ shutdowns' = HealthShutdowns(ok)
        /\ connected' = (ok /\ HealthShutdowns(ok) = 0)
        /\ pc' = "idle"

\* main() with --sync-deals up to the call of sync_deals
MainSync ==
    \E since \in 0..MaxTime, terminalOk \in BOOLEAN :
        LET ok == Mt5Initialize(MT5_AVAILABLE, terminalOk) IN
        /\ Invocable("sync")
        /\ Begin("sync", since)
        /\ inits' = IF ok THEN "true" ELSE "false"
        /\ shutdowns' = 0
        /\ connected' = ok
        /\ pc' = IF ok THEN "sync_deals" ELSE "idle"

\* deals = get_recent_deals(since)
SyncFetch ==
    \E isNone \in BOOLEAN :
        /\ pc = "sync_deals"
        /\ fetch' = IF ~MT5_AVAILABLE THEN "mock" ELSE IF isNone THEN "none" ELSE "deals"
        /\ deals' = GetRecentDeals(MT5_AVAILABLE, isNone, history, args.since)
        /\ i' = 1
        /\ pc' = "for_deal"
        /\ UNCHANGED <<MT5_AVAILABLE, history, args, inits, connected, shutdowns,
                       posts, delivered>>

\* one iteration of the for loop of sync_deals: post_economic_event makes
\* one requests.post call; its return value is not used by the loop
SyncDeal ==
    \E outcome \in Outcomes :
        LET deal == deals[i]
            caught == outcome.kind = "response" \/ Catches(outcome.kind)
        IN
        /\ pc = "for_deal"
        /\ i <= Len(deals)
        /\ posts' = Append(posts,
                [idx |-> i,
                 deal |-> deal,
                 ticket |-> TicketText(deal),
                 payload |-> Payload(TraceId(deal), EventType(deal), deal),
                 outcome |-> outcome,
                 ret |-> caught /\ PostResult(outcome),
                 connected |-> connected])
        /\ i' = i + 1
        \* an exception the handler does not catch ends the process
        /\ pc' = IF caught THEN "for_deal" ELSE "idle"
        /\ UNCHANGED <<MT5_AVAILABLE, history, args, inits, connected, shutdowns,
                       fetch, deals, delivered>>

\* the loop is over: sync_deals returns and main() calls mt5_shutdown
SyncShutdown ==
    /\ pc = "for_deal"
    /\ i > Len(deals)
    /\ connected' = FALSE
    /\ shutdowns' = shutdowns + 1
    /\ pc' = "idle"
    /\ UNCHANGED <<MT5_AVAILABLE, history, args, inits, fetch, deals, i, posts,
                   delivered>>

\* main() with --register-webhook: one POST to /webhooks, nothing to the
\* economics endpoint and no terminal connection
MainRegisterWebhook ==
    /\ Invocable("webhook")
    /\ Begin("webhook", 0)
    /\ inits' = "not_called"
    /\ shutdowns' = 0
    /\ connected' = FALSE
    /\ pc' = "idle"

\* main() without flags prints the banner
MainInteractive ==
    /\ Invocable("interactive")
    /\ Begin("interactive", 0)
    /\ inits' = "not_called"
    /\ shutdowns' = 0
    /\ connected' = FALSE
    /\ pc' = "idle"

Next ==
    \/ MainHealth
    \/ MainSync
    \/ SyncFetch
    \/ SyncDeal
    \/ SyncShutdown
    \/ MainRegisterWebhook
    \/ MainInteractive

Spec == Init /\ [][Next]_vars

SpecMap == InitMap /\ [][Next]_vars

TypeOK ==
    /\ pc \in {"idle", "sync_deals", "for_deal"}
    /\ inits \in {"not_called", "true", "false"}
    /\ fetch \in {"not_called", "mock", "none", "deals"}
    /\ connected \in BOOLEAN
    /\ shutdowns \in 0..1
    /\ i \in 1..(Len(deals) + 1)
    /\ Len(posts) <= Len(deals)

\* the sequential program always takes its next step: every call returns
\* (requests.post within its timeout of 5 seconds)
FairSpec ==
    InitRecent /\ [][Next]_vars /\ WF_vars(SyncFetch) /\ WF_vars(SyncDeal) /\ WF_vars(SyncShutdown)

\* ------------------------------------------------------------ properties
PostIdx == 1..Len(posts)

\* a sync run that got a connection and has ended
SyncRunOver == args.cmd = "sync" /\ inits = "true" /\ pc = "idle"

Is2xx(o) == o.kind = "response" /\ 200 <= o.status /\ o.status < 300

Is4xx(o) == o.kind = "response" /\ 400 <= o.status /\ o.status < 500

Transient(o) ==
    \/ o.kind \in {"timeout", "refused"}
    \/ (o.kind = "response" /\ 500 <= o.status /\ o.status < 600)

\* number of requests.post calls made for the deal at position idx
Attempts(idx) == Cardinality({k \in PostIdx : posts[k].idx = idx})

\* C1: a ticket whose event an earlier sync run delivered is not delivered
\* again by a later run over the same deal source.
C1_NoRedelivery ==
    \A k \in PostIdx : posts[k].ret => posts[k].ticket \notin delivered

\* C2: within one sync run at most one POST to /economics/event is made for
\* a ticket id, however often the id appears in the fetched batch.
C2_BatchDeduplicated ==
    \A j, k \in PostIdx : j # k => posts[j].ticket # posts[k].ticket

\* C3: a failed delivery does not abort the run: the deals are attempted one
\* by one in the order the source returned them, none is skipped after a
\* failure, and a run that entered the loop ends with every deal attempted.
C3_AttemptedInOrder ==
    /\ \A k \in PostIdx : posts[k].idx = k /\ posts[k].deal = deals[k]
    /\ pc = "for_deal" => i = Len(posts) + 1
    /\ SyncRunOver => Len(posts) = Len(deals)

C3_FailureIsolated ==
    /\ []C3_AttemptedInOrder
    /\ (pc = "for_deal") ~> (SyncRunOver /\ Len(posts) = Len(deals))

C3_Witness ==
    /\ SyncRunOver
    /\ Len(posts) >= 2
    /\ ~posts[1].ret
    /\ posts[1].outcome.kind = "timeout"

\* C4: a record whose delivery failed transiently is reported failed only
\* after 3 attempts, and never gets more than 3 attempts.
C4_RetriedThreeTimes ==
    \A k \in PostIdx :
        /\ Attempts(posts[k].idx) <= 3
        /\ (posts[k].idx < i /\ Transient(posts[k].outcome) /\ ~posts[k].ret)
              => Attempts(posts[k].idx) = 3

\* C5: a 4xx answer gets exactly one delivery attempt for the record and the
\* record is reported failed.
C5_RejectionNotRetried ==
    \A k \in PostIdx :
        Is4xx(posts[k].outcome) => (~posts[k].ret /\ Attempts(posts[k].idx) = 1)

C5_Witness ==
    /\ SyncRunOver
    /\ \E k \in PostIdx : posts[k].outcome = Response(400) /\ k < Len(posts)

\* C6: post_economic_event returns True exactly when the endpoint answered
\* with a 2xx status.
C6_SuccessIff2xx ==
    \A k \in PostIdx : posts[k].ret <=> Is2xx(posts[k].outcome)

\* C7: when mt5_initialize fails or the history query gives no result
\* object, the sync run posts no economic event; a failed initialize ends
\* the run before anything is fetched.
C7_SourceUnavailableNoPost ==
    /\ (args.cmd = "sync" /\ (inits = "false" \/ fetch = "none"))
          => (posts = <<>> /\ deals = <<>>)
    /\ (args.cmd = "sync" /\ inits = "false")
          => (pc = "idle" /\ fetch = "not_called")

C7_Witness ==
    /\ args.cmd = "sync"
    /\ pc = "idle"
    /\ fetch = "none"
    /\ HistoryDealsGet(history, args.since) # <<>>
    /\ delivered # {}

DigitValue(c) ==
    CASE c = "0" -> 0 [] c = "1" -> 1 [] c = "2" -> 2 [] c = "3" -> 3
      [] c = "4" -> 4 [] c = "5" -> 5 [] c = "6" -> 6 [] c = "7" -> 7
      [] c = "8" -> 8 [] c = "9" -> 9 [] OTHER -> -1

\* the number a decimal numeral denotes; -1 when the text is not a numeral
RECURSIVE ParseDecimal(_)
ParseDecimal(s) ==
    IF s = <<>> THEN -1
    ELSE IF DigitValue(s[Len(s)]) < 0 THEN -1
    ELSE IF Len(s) = 1 THEN DigitValue(s[1])
    ELSE LET front == ParseDecimal(SubSeq(s, 1, Len(s) - 1)) IN
         IF front < 0 \/ (front = 0 /\ Len(s) > 1) THEN -1
         ELSE front * 10 + DigitValue(s[Len(s)])

\* C8: the trace id of a posted event is the deal's comment when it is
\* present and non-empty, and otherwise "mt5-" followed by the ticket id in
\* decimal: ticket 12345678 gives "mt5-12345678", comment "order-42" gives
\* "order-42".
C8_TraceId ==
    \A k \in PostIdx :
        LET d == posts[k].deal
            t == posts[k].payload.traceId
        IN
        IF Has(d, "comment") /\ Len(d["comment"]) > 0
        THEN /\ t = d["comment"]
             /\ d["comment"] = <<"o", "r", "d", "e", "r", "-", "4", "2">>
                   => t = <<"o", "r", "d", "e", "r", "-", "4", "2">>
        ELSE Has(d, "ticket") =>
             /\ Len(t) > 4
             /\ SubSeq(t, 1, 4) = <<"m", "t", "5", "-">>
             /\ ParseDecimal(SubSeq(t, 5, Len(t))) = d["ticket"]
             /\ d["ticket"] = 12345678
                   => t = <<"m", "t", "5", "-", "1", "2", "3", "4", "5", "6", "7", "8">>

C8_Witness ==
    \E k \in PostIdx :
        /\ Has(posts[k].deal, "comment")
        /\ posts[k].deal["comment"] = <<>>
        /\ Has(posts[k].deal, "ticket")
        /\ posts[k].deal["ticket"] = 12345678

\* C9: the fees of a posted event are the absolute value of the deal's
\* commission and its costs the absolute value of the swap, so neither is
\* negative; a missing commission or swap gives 0.
C9_FeesCostsAbsolute ==
    \A k \in PostIdx :
        LET d == posts[k].deal
            e == posts[k].payload
        IN
        /\ e.fees >= 0
        /\ e.costs >= 0
        /\ IF Has(d, "commission")
           THEN e.fees = d["commission"] \/ e.fees = 0 - d["commission"]
           ELSE e.fees = 0
        /\ IF Has(d, "swap")
           THEN e.costs = d["swap"] \/ e.costs = 0 - d["swap"]
           ELSE e.costs = 0

C9_Witness ==
    \E k \in PostIdx :
        /\ Has(posts[k].deal, "commission")
        /\ posts[k].deal["commission"] < 0
        /\ ~Has(posts[k].deal, "swap")
        /\ posts[k].payload.fees > 0

\* C10: the terminal connection is well bracketed: mt5_shutdown is called
\* once after a successful mt5_initialize and never after a failed one, no
\* invocation ends with the connection open, and every POST of a sync run
\* is made while the connection is open.
C10_LifecycleBracketed ==
    /\ shutdowns <= 1
    /\ shutdowns = 1 => inits = "true"
    /\ connected <=> (inits = "true" /\ shutdowns = 0)
    /\ pc = "idle" => ~connected
    /\ (pc = "idle" /\ inits = "true") => shutdowns = 1
    /\ \A k \in PostIdx : posts[k].connected

C10_Witness ==
    /\ SyncRunOver
    /\ shutdowns = 1
    /\ Len(posts) >= 2
    /\ \E k \in PostIdx : ~posts[k].ret
    /\ \E k \in PostIdx : posts[k].ret

====
